---------------------------- MODULE Spec2Model ----------------------------
(***************************************************************************)
(* One collection cycle of the database-size scraper of greenplum_exporter *)
(* (collector/database_size.go): databaseSizeScraper.Scrape and the four   *)
(* queries it calls, step by step, against a database server and a driver  *)
(* that may fail any open, any query and any row scan, and against the     *)
(* 2-second deadline of the primary query.                                 *)
(***************************************************************************)
EXTENDS Integers, Sequences, FiniteSets, TLC

VARIABLES
    pc,       \* position of the cycle in Scrape and the functions it calls
    ctxDone,  \* the 2-second deadline of ctx (line 83) has expired
    rows,     \* the *sql.Rows of each of the five queries
    names,    \* names (line 97): database names recorded for the second stage
    item,     \* loop position of line 113, an index into names
    errs,     \* errs of Scrape (line 95)
    ch,       \* the measurements written to ch, in order
    db,       \* the primary connection handed to Scrape
    conns,    \* one entry per sql.Open of queryTablesCount, in order
    count,    \* named result count of queryTablesCount (line 137)
    err,      \* named result err of queryTablesCount (line 137)
    berrs,    \* errs of queryBloatTables (line 187)
    ret,      \* what Scrape returned, once it has returned
    dataSourceName  \* GPDB_DATA_SOURCE_URL in the environment (line 138)

vars == <<pc, ctxDone, rows, names, item, errs, ch, db, conns, count, err, berrs, ret,
          dataSourceName>>

-----------------------------------------------------------------------------
(* Bounds of the model *)

\* databases the primary query may return
MaxDbs == 2
\* rows of gp_bloat_diag in the whole cluster, over all its databases
MaxBloatRows == 2
\* rows a cluster-aggregate query may return
MaxRatioRows == 2

-----------------------------------------------------------------------------
(* Values *)

\* database names, in the order gp_size_of_database lists them
AllNames == <<"app", "sales", "hr", "ops">>
\* database_size_mb of each of them
AllSizes == <<100, 42, 7, 3>>
\* values of the object count
Counts == {10}
\* values of the two ratio queries
Rates == {97}
\* bdirelname of the i-th row of gp_bloat_diag
TableNames == <<"t1", "t2", "t3", "t4">>

databaseSizeSql == "databaseSizeSql"
tableCountSql == "tableCountSql"
bloatTableSql == "bloatTableSql"
hitCacheRateSql == "hitCacheRateSql"
txCommitRateSql == "txCommitRateSql"

databaseSizeDesc == "database_name_mb_size"
tablesCountDesc == "database_table_total_count"
bloatTableDesc == "database_table_bloat_list"
hitCacheRateDesc == "database_hit_cache_percent_rate"
txCommitRateDesc == "database_transition_commit_percent_rate"

\* prometheus.MustNewConstMetric(desc, GaugeValue, value, labels...)
MustNewConstMetric(desc, value, labels) ==
    [desc |-> desc, value |-> value, labels |-> labels]

-----------------------------------------------------------------------------
(* Errors *)

\* the nil error
Nil == [op |-> "nil", at |-> "-", parts |-> <<>>]
\* the error of one failed operation op (open, query, scan, deadline) of a query
Failure(op, at) == [op |-> op, at |-> at, parts |-> <<>>]

\* combineErr(errs...): no error when nothing failed, otherwise one error that
\* keeps every failure it was given
combineErr(es) ==
    IF Len(es) = 0 THEN Nil ELSE [op |-> "combined", at |-> "-", parts |-> es]

-----------------------------------------------------------------------------
(* bloat_state of bloatTableSql *)

Moderate == <<"m", "o", "d", "e", "r", "a", "t", "e">>
Significant == <<"s", "i", "g", "n", "i", "f", "i", "c", "a", "n", "t">>
Other == <<"n", "o", " ">>
Words == {Moderate, Significant, Other}

\* values of bdidiag: NULL, or a text of at most two words
Diags ==
    {[null |-> TRUE, text |-> <<>>]}
    \cup {[null |-> FALSE, text |-> <<>>]}
    \cup {[null |-> FALSE, text |-> w] : w \in Words}
    \cup {[null |-> FALSE, text |-> v \o w] : v \in Words, w \in Words}

\* position(sub in s) of SQL: the index of the first occurrence, 0 when none
position(sub, s) ==
    LET hits == {i \in 1..(Len(s) - Len(sub) + 1) :
                    SubSeq(s, i, i + Len(sub) - 1) = sub}
    IN IF hits = {} THEN 0 ELSE CHOOSE i \in hits : \A j \in hits : i <= j

\* the CASE of bloatTableSql; a comparison with NULL is not true
bloat_state(bdidiag) ==
    IF ~bdidiag.null /\ position(Moderate, bdidiag.text) > 0 THEN 1
    ELSE IF ~bdidiag.null /\ position(Significant, bdidiag.text) > 0 THEN 2
    ELSE 0

-----------------------------------------------------------------------------
(* Connections: a *sql.DB with what happened on it *)

\* the base descriptor the exporter is documented to be started with
DocumentedUrl == "postgres://gpadmin:pw@gp:5432/postgres?sslmode=disable"
\* base descriptors the environment may hold: the documented one, one whose
\* user is named postgres, one whose database is not postgres
DataSourceNames ==
    {DocumentedUrl,
     "postgres://postgres:pw@gp:5432/postgres?sslmode=disable",
     "postgres://gpadmin:pw@gp:5432/gpdb?sslmode=disable"}

\* strings.Replace(s, old, new, n) for n >= 0: the first n occurrences
RECURSIVE Replace(_, _, _, _)
Replace(s, old, new, n) ==
    LET i == position(old, s) IN
    IF n = 0 \/ i = 0 THEN s
    ELSE SubSeq(s, 1, i - 1) \o new
            \o Replace(SubSeq(s, i + Len(old), Len(s)), old, new, n - 1)
\* newDataSourceName of line 139
newDataSourceName(dsn, dbname) == Replace(dsn, "/postgres", "/" \o dbname, 1)

\* s up to the first occurrence of stop, all of s when there is none
\* (the set of one element has s evaluated once, however it is nested)
Upto(s, stop) ==
    LET head(v) == IF position(stop, v) = 0 THEN v
                   ELSE SubSeq(v, 1, position(stop, v) - 1)
    IN  CHOOSE r \in {head(v) : v \in {s}} : TRUE
\* s after the first occurrence of stop, nothing when there is none
Past(s, stop) ==
    LET tail(v) == IF position(stop, v) = 0 THEN ""
                   ELSE SubSeq(v, position(stop, v) + Len(stop), Len(v))
    IN  CHOOSE r \in {tail(v) : v \in {s}} : TRUE
\* the database a URL descriptor names: its path, after the authority and
\* before the options
Database(dsn) == Upto(Past(Past(dsn, "://"), "/"), "?")

\* the *sql.DB of sql.Open(dsn); opened is FALSE when sql.Open failed
Connection(dsn, opened) ==
    [dsn |-> dsn, db |-> Database(dsn), opened |-> opened, open |-> opened,
     closes |-> 0, queries |-> <<>>]
\* c.Query(q) or c.QueryContext(ctx, q), which succeeded or not
Query(c, q, ok) ==
    [c EXCEPT !.queries = Append(@, [sql |-> q, ok |-> ok, n |-> 0, bad |-> 0])]
\* rows.Next() of the running query of c returned true
Read(c) == [c EXCEPT !.queries[Len(c.queries)].n = @ + 1]
\* rows.Scan() of the running query of c failed
Bad(c) == [c EXCEPT !.queries[Len(c.queries)].bad = @ + 1]
\* c.Close()
Close(c) == [c EXCEPT !.open = FALSE, !.closes = @ + 1]

\* rows of gp_bloat_diag the server has returned over the connections cs
RECURSIVE BloatRowsServed(_)
BloatRowsServed(cs) ==
    IF cs = <<>> THEN 0
    ELSE LET qs == cs[Len(cs)].queries
             n == IF Len(qs) = 2 /\ qs[2].ok THEN qs[2].n ELSE 0
         IN n + BloatRowsServed(SubSeq(cs, 1, Len(cs) - 1))

-----------------------------------------------------------------------------
(* Result sets *)

RowSets == {databaseSizeSql, tableCountSql, bloatTableSql,
            hitCacheRateSql, txCommitRateSql}

\* no *sql.Rows exists for the query
NoRows == [st |-> "none", total |-> 0, n |-> 0, cur |-> <<>>, lasterr |-> "-"]
\* the *sql.Rows of a query that returned total rows
OpenRows(total) ==
    [st |-> "open", total |-> total, n |-> 0, cur |-> <<>>, lasterr |-> "-"]
\* rows.Close(), and the close rows.Next() does when it returns false
CloseRows(r) ==
    IF r.st = "open" THEN [r EXCEPT !.st = "closed", !.cur = <<>>] ELSE r
\* rows.Next() delivering the row x
Deliver(r, x) == [r EXCEPT !.n = r.n + 1, !.cur = <<x>>]

-----------------------------------------------------------------------------
\* the connection the running queryTablesCount opened
conn == conns[Len(conns)]
\* current_database() on a connection
current_database(c) == c.db

(* Scrape is called with the primary connection open, in a process whose    *)
(* environment holds some base descriptor.                                  *)
Called ==
    /\ pc = "query"
    /\ ctxDone = FALSE
    /\ rows = [q \in RowSets |-> NoRows]
    /\ names = <<>>
    /\ item = 0
    /\ errs = <<>>
    /\ ch = <<>>
    /\ db = Connection(dataSourceName, TRUE)
    /\ conns = <<>>
    /\ count = 0
    /\ err = Nil
    /\ berrs = <<>>
    /\ ret = Nil

\* the exporter was started with the documented base descriptor
Init == dataSourceName = DocumentedUrl /\ Called
\* the exporter was started with any of the base descriptors
InitAnyUrl == dataSourceName \in DataSourceNames /\ Called

(* The deadline of line 83 expires while the primary stage runs: before    *)
(* QueryContext has returned, or while rows of its result are still to be   *)
(* read or scanned. database/sql then closes the rows with the context's    *)
(* error. (Once every row is scanned an expiry changes nothing the code     *)
(* reads: rows.Next() returns false either way.)                            *)
Expire ==
    /\ ~ctxDone
    /\ \/ pc = "query"
       \/ pc = "sizeScan"
       \/ pc = "sizeNext" /\ rows[databaseSizeSql].n < rows[databaseSizeSql].total
    /\ ctxDone' = TRUE
    /\ rows' = [rows EXCEPT ![databaseSizeSql] =
                   IF @.st = "open"
                   THEN [CloseRows(@) EXCEPT !.lasterr = "deadline"] ELSE @]
    /\ UNCHANGED <<dataSourceName, pc, names, item, errs, ch, db, conns, count, err, berrs, ret>>

\* ScrapeQuery recording the failure of the primary query and going on
ScrapeQuery_GoesOn ==
    /\ pc = "query"
    /\ \/ /\ db' = Query(db, databaseSizeSql, FALSE)
          /\ errs' = <<Failure(IF ctxDone THEN "deadline" ELSE "query", databaseSizeSql)>>
          /\ pc' = "hitQuery"
          /\ UNCHANGED <<rows, ret, names>>
       \/ /\ ~ctxDone
          /\ db' = Query(db, databaseSizeSql, TRUE)
          /\ \E total \in 0..MaxDbs :
                rows' = [rows EXCEPT ![databaseSizeSql] = OpenRows(total)]
          /\ errs' = <<>>
          /\ names' = <<>>
          /\ pc' = "sizeNext"
          /\ UNCHANGED ret
    /\ UNCHANGED <<dataSourceName, ctxDone, item, ch, conns, count, err, berrs>>

(* Scrape, lines 82-97: the primary query. *)
ScrapeQuery ==
    /\ pc = "query"
    /\ \/ /\ db' = Query(db, databaseSizeSql, FALSE)
          /\ ret' = Failure(IF ctxDone THEN "deadline" ELSE "query", databaseSizeSql)
          /\ pc' = "done"
          /\ UNCHANGED <<rows, errs, names>>
       \/ /\ ~ctxDone
          /\ db' = Query(db, databaseSizeSql, TRUE)
          /\ \E total \in 0..MaxDbs :
                rows' = [rows EXCEPT ![databaseSizeSql] = OpenRows(total)]
          /\ errs' = <<>>
          /\ names' = <<>>
          /\ pc' = "sizeNext"
          /\ UNCHANGED ret
    /\ UNCHANGED <<dataSourceName, ctxDone, item, ch, conns, count, err, berrs>>

(* Scrape, line 98: rows.Next() of the primary query. *)
ScrapeNext ==
    /\ pc = "sizeNext"
    /\ LET r == rows[databaseSizeSql] IN
       IF r.st = "open" /\ r.n < r.total
       THEN /\ \E ok \in BOOLEAN :
                 rows' = [rows EXCEPT ![databaseSizeSql] =
                     Deliver(r, [dbname |-> AllNames[r.n + 1],
                                 mbSize |-> AllSizes[r.n + 1], ok |-> ok])]
            /\ db' = Read(db)
            /\ pc' = "sizeScan"
            /\ UNCHANGED item
       ELSE /\ rows' = [rows EXCEPT ![databaseSizeSql] = CloseRows(r)]
            /\ item' = 1
            /\ pc' = "dbLoop"
            /\ UNCHANGED db
    /\ UNCHANGED <<dataSourceName, ctxDone, names, errs, ch, conns, count, err, berrs, ret>>

\* ScrapeScan labelling every size with the name scanned first
ScrapeScan_StaleName ==
    /\ pc = "sizeScan"
    /\ LET r == rows[databaseSizeSql] IN
       IF r.st = "open" /\ r.cur[1].ok
       THEN /\ ch' = Append(ch, MustNewConstMetric(databaseSizeDesc,
                                   r.cur[1].mbSize,
                                   <<IF names = <<>> THEN r.cur[1].dbname ELSE names[1]>>))
            /\ names' = Append(names, r.cur[1].dbname)
            /\ UNCHANGED <<errs, db>>
       ELSE /\ errs' = Append(errs, Failure("scan", databaseSizeSql))
            /\ db' = Bad(db)
            /\ UNCHANGED <<ch, names>>
    /\ pc' = "sizeNext"
    /\ UNCHANGED <<dataSourceName, ctxDone, rows, item, conns, count, err, berrs, ret>>

\* ScrapeScan leaving the loop at the first row that fails to scan
ScrapeScan_Break ==
    /\ pc = "sizeScan"
    /\ LET r == rows[databaseSizeSql] IN
       IF r.st = "open" /\ r.cur[1].ok
       THEN /\ ch' = Append(ch, MustNewConstMetric(databaseSizeDesc,
                                   r.cur[1].mbSize, <<r.cur[1].dbname>>))
            /\ names' = Append(names, r.cur[1].dbname)
            /\ UNCHANGED <<errs, db, rows>>
       ELSE /\ errs' = Append(errs, Failure("scan", databaseSizeSql))
            /\ db' = Bad(db)
            /\ rows' = [rows EXCEPT ![databaseSizeSql] = CloseRows(r)]
            /\ UNCHANGED <<ch, names>>
    /\ pc' = "sizeNext"
    /\ UNCHANGED <<dataSourceName, ctxDone, item, conns, count, err, berrs, ret>>

(* Scrape, lines 99-110: scan one row of the primary query and emit it. *)
ScrapeScan ==
    /\ pc = "sizeScan"
    /\ LET r == rows[databaseSizeSql] IN
       IF r.st = "open" /\ r.cur[1].ok
       THEN /\ ch' = Append(ch, MustNewConstMetric(databaseSizeDesc,
                                   r.cur[1].mbSize, <<r.cur[1].dbname>>))
            /\ names' = Append(names, r.cur[1].dbname)
            /\ UNCHANGED <<errs, db>>
       ELSE /\ errs' = Append(errs, Failure("scan", databaseSizeSql))
            /\ db' = Bad(db)
            /\ UNCHANGED <<ch, names>>
    /\ pc' = "sizeNext"
    /\ UNCHANGED <<dataSourceName, ctxDone, rows, item, conns, count, err, berrs, ret>>

\* ScrapeLoop walking names from its last entry to its first
ScrapeLoop_Backwards ==
    /\ pc = "dbLoop"
    /\ IF item > Len(names)
       THEN /\ pc' = "hitQuery"
            /\ UNCHANGED <<conns, count, err>>
       ELSE /\ count' = 0
            /\ \E opened \in BOOLEAN :
                 /\ conns' = Append(conns, Connection(newDataSourceName(dataSourceName,
                                                   names[Len(names) + 1 - item]), opened))
                 /\ IF opened
                    THEN err' = Nil /\ pc' = "countQuery"
                    ELSE err' = Failure("open", names[item]) /\ pc' = "tcReturn"
    /\ UNCHANGED <<dataSourceName, ctxDone, rows, names, item, errs, ch, db, berrs, ret>>

(* Scrape, lines 113-115, and queryTablesCount, lines 138-148: the loop     *)
(* head and the sql.Open of the next database.                              *)
ScrapeLoop ==
    /\ pc = "dbLoop"
    /\ IF item > Len(names)
       THEN /\ pc' = "hitQuery"
            /\ UNCHANGED <<conns, count, err>>
       ELSE /\ count' = 0
            /\ \E opened \in BOOLEAN :
                 /\ conns' = Append(conns,
                        Connection(newDataSourceName(dataSourceName, names[item]), opened))
                 /\ IF opened
                    THEN err' = Nil /\ pc' = "countQuery"
                    ELSE err' = Failure("open", names[item]) /\ pc' = "tcReturn"
    /\ UNCHANGED <<dataSourceName, ctxDone, rows, names, item, errs, ch, db, berrs, ret>>

(* queryTablesCount, lines 150-158: the object-count query, which    *)
(* answers with one row, a broken server with none.                         *)
queryTablesCountQuery ==
    /\ pc = "countQuery"
    /\ \/ /\ conns' = [conns EXCEPT ![Len(conns)] = Query(@, tableCountSql, FALSE)]
          /\ err' = Failure("query", tableCountSql)
          /\ pc' = "deferConn"
          /\ UNCHANGED rows
       \/ /\ conns' = [conns EXCEPT ![Len(conns)] = Query(@, tableCountSql, TRUE)]
          /\ \E total \in 0..1 :
                rows' = [rows EXCEPT ![tableCountSql] = OpenRows(total)]
          /\ pc' = "countNext"
          /\ UNCHANGED err
    /\ UNCHANGED <<dataSourceName, ctxDone, names, item, errs, ch, db, count, berrs, ret>>

(* queryTablesCount, line 160: rows.Next() of the object-count query. *)
queryTablesCountNext ==
    /\ pc = "countNext"
    /\ LET r == rows[tableCountSql] IN
       IF r.n < r.total
       THEN /\ \E total \in Counts, ok \in BOOLEAN :
                 rows' = [rows EXCEPT ![tableCountSql] =
                             Deliver(r, [total |-> total, ok |-> ok])]
            /\ conns' = [conns EXCEPT ![Len(conns)] = Read(@)]
            /\ pc' = "countScan"
       ELSE /\ rows' = [rows EXCEPT ![tableCountSql] = CloseRows(r)]
            /\ pc' = "bloatQuery"
            /\ UNCHANGED conns
    /\ UNCHANGED <<dataSourceName, ctxDone, names, item, errs, ch, db, count, err, berrs, ret>>

(* queryTablesCount, lines 161-165: scan the object count. *)
queryTablesCountScan ==
    /\ pc = "countScan"
    /\ LET r == rows[tableCountSql] IN
       IF r.cur[1].ok
       THEN /\ count' = r.cur[1].total
            /\ pc' = "countNext"
            /\ UNCHANGED <<err, conns>>
       ELSE /\ err' = Failure("scan", tableCountSql)
            /\ conns' = [conns EXCEPT ![Len(conns)] = Bad(@)]
            /\ pc' = "deferRows"
            /\ UNCHANGED count
    /\ UNCHANGED <<dataSourceName, ctxDone, rows, names, item, errs, ch, db, berrs, ret>>

(* queryBloatTables, lines 178-187, called at line 168: the bloat query. *)
queryBloatTablesQuery ==
    /\ pc = "bloatQuery"
    /\ \/ /\ conns' = [conns EXCEPT ![Len(conns)] = Query(@, bloatTableSql, FALSE)]
          /\ err' = Failure("query", bloatTableSql)
          /\ pc' = "deferRows"
          /\ UNCHANGED <<rows, berrs>>
       \/ /\ conns' = [conns EXCEPT ![Len(conns)] = Query(@, bloatTableSql, TRUE)]
          /\ \E total \in 0..(MaxBloatRows - BloatRowsServed(conns)) :
                rows' = [rows EXCEPT ![bloatTableSql] = OpenRows(total)]
          /\ berrs' = <<>>
          /\ pc' = "bloatNext"
          /\ UNCHANGED err
    /\ UNCHANGED <<dataSourceName, ctxDone, names, item, errs, ch, db, count, ret>>

\* bloat_state of the row delivered last; the result is ORDER BY bloat_state desc
LastState(r) == IF r.cur = <<>> THEN 2 ELSE r.cur[1].bloat_state

(* queryBloatTables, line 189, and its return, lines 201 and 168-174:       *)
(* rows.Next() of the bloat query; after the last row the function returns  *)
(* combineErr(errs), its deferred rows.Close() runs, and queryTablesCount   *)
(* takes the error as its own.                                              *)
queryBloatTablesNext ==
    /\ pc = "bloatNext"
    /\ LET r == rows[bloatTableSql] IN
       IF r.n < r.total
       THEN /\ \E bdidiag \in Diags, ok \in BOOLEAN :
                 /\ bloat_state(bdidiag) <= LastState(r)
                 /\ rows' = [rows EXCEPT ![bloatTableSql] =
                       Deliver(r, [bdidiag |-> bdidiag,
                                   dbname |-> current_database(conn),
                                   table |-> TableNames[r.n + 1],
                                   bloat_state |-> bloat_state(bdidiag),
                                   ok |-> ok])]
            /\ conns' = [conns EXCEPT ![Len(conns)] = Read(@)]
            /\ pc' = "bloatScan"
            /\ UNCHANGED err
       ELSE /\ rows' = [rows EXCEPT ![bloatTableSql] = CloseRows(r)]
            /\ err' = IF combineErr(berrs) # Nil THEN combineErr(berrs) ELSE err
            /\ pc' = "deferRows"
            /\ UNCHANGED conns
    /\ UNCHANGED <<dataSourceName, ctxDone, names, item, errs, ch, db, count, berrs, ret>>

\* queryBloatTablesScan scanning a row that failed over and over again
queryBloatTablesScan_Retry ==
    /\ pc = "bloatScan"
    /\ LET x == rows[bloatTableSql].cur[1] IN
       IF x.ok
       THEN /\ ch' = Append(ch, MustNewConstMetric(bloatTableDesc, x.bloat_state,
                                   <<x.dbname, x.table>>))
            /\ pc' = "bloatNext"
       ELSE UNCHANGED <<ch, pc>>
    /\ UNCHANGED <<dataSourceName, ctxDone, rows, names, item, errs, db, conns, count, err, berrs, ret>>

\* queryBloatTablesScan emitting only the tables that are bloated
queryBloatTablesScan_OnlyBloated ==
    /\ pc = "bloatScan"
    /\ LET x == rows[bloatTableSql].cur[1] IN
       IF x.ok
       THEN /\ ch' = IF x.bloat_state = 0 THEN ch
                     ELSE Append(ch, MustNewConstMetric(bloatTableDesc, x.bloat_state,
                                         <<x.dbname, x.table>>))
            /\ UNCHANGED <<berrs, conns>>
       ELSE /\ berrs' = Append(berrs, Failure("scan", bloatTableSql))
            /\ conns' = [conns EXCEPT ![Len(conns)] = Bad(@)]
            /\ UNCHANGED ch
    /\ pc' = "bloatNext"
    /\ UNCHANGED <<dataSourceName, ctxDone, rows, names, item, errs, db, count, err, ret>>

(* queryBloatTables, lines 190-198: scan one bloat row and emit it. *)
queryBloatTablesScan ==
    /\ pc = "bloatScan"
    /\ LET x == rows[bloatTableSql].cur[1] IN
       IF x.ok
       THEN /\ ch' = Append(ch, MustNewConstMetric(bloatTableDesc, x.bloat_state,
                                   <<x.dbname, x.table>>))
            /\ UNCHANGED <<berrs, conns>>
       ELSE /\ berrs' = Append(berrs, Failure("scan", bloatTableSql))
            /\ conns' = [conns EXCEPT ![Len(conns)] = Bad(@)]
            /\ UNCHANGED ch
    /\ pc' = "bloatNext"
    /\ UNCHANGED <<dataSourceName, ctxDone, rows, names, item, errs, db, count, err, ret>>

\* queryTablesCount without its deferred rows.Close()
queryTablesCountDeferRows_Missing ==
    /\ pc = "deferRows"
    /\ pc' = "deferConn"
    /\ UNCHANGED <<dataSourceName, ctxDone, rows, names, item, errs, ch, db, conns, count, err, berrs, ret>>

(* queryTablesCount, line 158: the deferred rows.Close(). *)
queryTablesCountDeferRows ==
    /\ pc = "deferRows"
    /\ rows' = [rows EXCEPT ![tableCountSql] = CloseRows(@)]
    /\ pc' = "deferConn"
    /\ UNCHANGED <<dataSourceName, ctxDone, names, item, errs, ch, db, conns, count, err, berrs, ret>>

\* queryTablesCount closing the connection on its successful return only
queryTablesCountDeferConn_OnSuccess ==
    /\ pc = "deferConn"
    /\ conns' = IF err = Nil THEN [conns EXCEPT ![Len(conns)] = Close(@)] ELSE conns
    /\ pc' = "tcReturn"
    /\ UNCHANGED <<dataSourceName, ctxDone, rows, names, item, errs, ch, db, count, err, berrs, ret>>

(* queryTablesCount, line 148: the deferred conn.Close(). *)
queryTablesCountDeferConn ==
    /\ pc = "deferConn"
    /\ conns' = [conns EXCEPT ![Len(conns)] = Close(@)]
    /\ pc' = "tcReturn"
    /\ UNCHANGED <<dataSourceName, ctxDone, rows, names, item, errs, ch, db, count, err, berrs, ret>>

\* ScrapeCount leaving the loop at the first database that failed
ScrapeCount_Break ==
    /\ pc = "tcReturn"
    /\ IF err # Nil
       THEN errs' = Append(errs, err) /\ item' = Len(names) + 1 /\ UNCHANGED ch
       ELSE /\ ch' = Append(ch, MustNewConstMetric(tablesCountDesc, count,
                                   <<names[item]>>))
            /\ item' = item + 1
            /\ UNCHANGED errs
    /\ rows' = [rows EXCEPT ![tableCountSql] = NoRows, ![bloatTableSql] = NoRows]
    /\ berrs' = <<>>
    /\ count' = 0
    /\ err' = Nil
    /\ pc' = "dbLoop"
    /\ UNCHANGED <<dataSourceName, ctxDone, names, db, conns, ret>>

(* Scrape, lines 115-122: queryTablesCount has returned (count, err); the   *)
(* variables of this turn of the loop go out of scope.                      *)
ScrapeCount ==
    /\ pc = "tcReturn"
    /\ IF err # Nil
       THEN errs' = Append(errs, err) /\ UNCHANGED ch
       ELSE /\ ch' = Append(ch, MustNewConstMetric(tablesCountDesc, count,
                                   <<names[item]>>))
            /\ UNCHANGED errs
    /\ item' = item + 1
    /\ rows' = [rows EXCEPT ![tableCountSql] = NoRows, ![bloatTableSql] = NoRows]
    /\ berrs' = <<>>
    /\ count' = 0
    /\ err' = Nil
    /\ pc' = "dbLoop"
    /\ UNCHANGED <<dataSourceName, ctxDone, names, db, conns, ret>>

\* queryHitCacheRate and queryTxCommitRate differ in the query and the metric
RatioQuery(at, q, next) ==
    /\ pc = at
    /\ \/ /\ db' = Query(db, q, FALSE)
          /\ errs' = Append(errs, Failure("query", q))
          /\ pc' = next
          /\ UNCHANGED rows
       \/ /\ db' = Query(db, q, TRUE)
          /\ \E total \in 0..MaxRatioRows :
                rows' = [rows EXCEPT ![q] = OpenRows(total)]
          /\ pc' = q
          /\ UNCHANGED errs
    /\ UNCHANGED <<dataSourceName, ctxDone, names, item, ch, conns, count, err, berrs, ret>>

\* RatioFirstRow without its break: one measurement for every row
RatioFirstRow_NoBreak(q, desc) ==
    /\ pc = q
    /\ LET r == rows[q] IN
       IF r.n < r.total
       THEN /\ \E v \in Rates, ok \in BOOLEAN :
                 /\ rows' = [rows EXCEPT ![q] = Deliver(r, [rate |-> v, ok |-> ok])]
                 /\ db' = IF ok THEN Read(db) ELSE Bad(Read(db))
                 /\ ch' = Append(ch, MustNewConstMetric(desc, IF ok THEN v ELSE 0, <<>>))
            /\ pc' = q
       ELSE /\ rows' = [rows EXCEPT ![q] = CloseRows(r)]
            /\ pc' = q \o "Return"
            /\ UNCHANGED <<ch, db>>
    /\ UNCHANGED <<dataSourceName, ctxDone, names, item, errs, conns, count, err, berrs, ret>>

\* the loop body runs at most once: Next, Scan, emit, break; a failed Scan
\* leaves rate at its zero value and its error is overwritten by nothing
RatioFirstRow(q, desc) ==
    /\ pc = q
    /\ LET r == rows[q] IN
       IF r.n < r.total
       THEN \E v \in Rates, ok \in BOOLEAN :
               /\ rows' = [rows EXCEPT ![q] = Deliver(r, [rate |-> v, ok |-> ok])]
               /\ db' = IF ok THEN Read(db) ELSE Bad(Read(db))
               /\ ch' = Append(ch, MustNewConstMetric(desc, IF ok THEN v ELSE 0, <<>>))
       ELSE /\ rows' = [rows EXCEPT ![q] = CloseRows(r)]
            /\ UNCHANGED <<ch, db>>
    /\ pc' = q \o "Return"
    /\ UNCHANGED <<dataSourceName, ctxDone, names, item, errs, conns, count, err, berrs, ret>>

\* the deferred rows.Close() and return nil
RatioReturn(q, next) ==
    /\ pc = q \o "Return"
    /\ rows' = [rows EXCEPT ![q] = NoRows]
    /\ pc' = next
    /\ UNCHANGED <<dataSourceName, ctxDone, names, item, errs, ch, db, conns, count, err, berrs, ret>>

\* Scrape returning at once when the cache-hit query fails
queryHitCacheRateQuery_Returns == RatioQuery("hitQuery", hitCacheRateSql, "combine")

(* queryHitCacheRate, lines 205-212, and Scrape, lines 124-127. *)
queryHitCacheRateQuery == RatioQuery("hitQuery", hitCacheRateSql, "txQuery")
(* queryHitCacheRate, lines 214-221. *)
queryHitCacheRateRow == RatioFirstRow(hitCacheRateSql, hitCacheRateDesc)
(* queryHitCacheRate, lines 212 and 223. *)
queryHitCacheRateReturn == RatioReturn(hitCacheRateSql, "txQuery")

(* queryTxCommitRate, lines 227-234, and Scrape, lines 129-132. *)
queryTxCommitRateQuery == RatioQuery("txQuery", txCommitRateSql, "combine")
(* queryTxCommitRate, lines 236-243. *)
queryTxCommitRateRow == RatioFirstRow(txCommitRateSql, txCommitRateDesc)
(* queryTxCommitRate, lines 234 and 245. *)
queryTxCommitRateReturn == RatioReturn(txCommitRateSql, "combine")

\* ScrapeReturn releasing the connection it was handed along with its rows
ScrapeReturn_ClosesDb ==
    /\ pc = "combine"
    /\ ret' = combineErr(errs)
    /\ rows' = [rows EXCEPT ![databaseSizeSql] = CloseRows(@)]
    /\ db' = Close(db)
    /\ pc' = "done"
    /\ UNCHANGED <<dataSourceName, ctxDone, names, item, errs, ch, conns, count, err, berrs>>

(* Scrape, line 134, with the deferred rows.Close() of line 93. *)
ScrapeReturn ==
    /\ pc = "combine"
    /\ ret' = combineErr(errs)
    /\ rows' = [rows EXCEPT ![databaseSizeSql] = CloseRows(@)]
    /\ pc' = "done"
    /\ UNCHANGED <<dataSourceName, ctxDone, names, item, errs, ch, db, conns, count, err, berrs>>

Next ==
    \/ Expire
    \/ ScrapeQuery
    \/ ScrapeNext
    \/ ScrapeScan
    \/ ScrapeLoop
    \/ queryTablesCountQuery
    \/ queryTablesCountNext
    \/ queryTablesCountScan
    \/ queryBloatTablesQuery
    \/ queryBloatTablesNext
    \/ queryBloatTablesScan
    \/ queryTablesCountDeferRows
    \/ queryTablesCountDeferConn
    \/ ScrapeCount
    \/ queryHitCacheRateQuery
    \/ queryHitCacheRateRow
    \/ queryHitCacheRateReturn
    \/ queryTxCommitRateQuery
    \/ queryTxCommitRateRow
    \/ queryTxCommitRateReturn
    \/ ScrapeReturn

Spec == Init /\ [][Next]_vars

(* Scrape runs in one goroutine that is never suspended for good: when the  *)
(* server answers every query and the sink takes every write, the step the  *)
(* cycle is at is taken. The deadline need not expire.                      *)
FairSpec == Spec /\ WF_vars(Next)

\* the cycle whatever base descriptor the environment holds
AnyUrlSpec == InitAnyUrl /\ [][Next]_vars

-----------------------------------------------------------------------------
(* What the claims speak of *)

\* Scrape has returned
Returned == pc = "done"
\* the primary query returned a result, so Scrape returned from line 134
Enumerated == db.queries # <<>> /\ db.queries[1].ok
\* the measurements of one metric, in the order written
Measurements(desc) == SelectSeq(ch, LAMBDA m : m.desc = desc)
\* the measurements of one metric labelled with database d
MeasurementsOf(desc, d) ==
    SelectSeq(ch, LAMBDA m : m.desc = desc /\ m.labels[1] = d)
\* the failures the error e holds
Failures(e) == {e.parts[k] : k \in DOMAIN e.parts}

\* positions of queryTablesCount and queryBloatTables
InStage == {"countQuery", "countNext", "countScan", "bloatQuery", "bloatNext",
            "bloatScan", "deferRows", "deferConn"}
\* the per-database stage of the i-th connection has returned
StageOver(i) == i < Len(conns) \/ pc \notin InStage

\* the object-count query of connection c was executed
CountExecuted(c) == c.opened /\ c.queries # <<>> /\ c.queries[1].ok
\* the object-count step of connection c produced a value
CountProduced(c) ==
    CountExecuted(c) /\ c.queries[1].n = 1 /\ c.queries[1].bad = 0
\* the object-count step of connection c failed: the open, the query, the scan
CountFailed(c) == ~CountExecuted(c) \/ c.queries[1].bad > 0
\* the bloat query was issued on connection c
BloatAttempted(c) == \E k \in DOMAIN c.queries : c.queries[k].sql = bloatTableSql
\* something failed in the stage of connection c: the open, a query, a scan
TargetFailed(c) ==
    \/ ~c.opened
    \/ \E k \in DOMAIN c.queries : ~c.queries[k].ok \/ c.queries[k].bad > 0
\* a failure the loop of lines 113-122 recorded
IsTargetFailure(e) ==
    e.at \notin {databaseSizeSql, hitCacheRateSql, txCommitRateSql}

\* C1: a connection that was opened is closed exactly once by the time its
\* per-database stage has returned, whatever the stage met, never more than
\* once, and a connection that failed to open is never closed.
C1_ConnectionClosedOnce ==
    \A i \in DOMAIN conns :
        LET c == conns[i] IN
        /\ c.closes <= 1
        /\ ~c.opened => c.closes = 0
        /\ StageOver(i) /\ c.opened => c.closes = 1 /\ ~c.open

\* a cycle in which one connection failed to open and another met a failed
\* scan of the object count, and was closed
C1_Witness ==
    /\ Returned
    /\ \E i, j \in DOMAIN conns :
          /\ ~conns[i].opened /\ conns[i].closes = 0
          /\ CountExecuted(conns[j]) /\ conns[j].queries[1].bad = 1
          /\ conns[j].closes = 1

\* C2: whichever targets fail, every discovered database has its stage run,
\* every target that did not fail has its object-count measurement and all
\* its bloat measurements emitted, and the returned error holds as many
\* per-database failures as targets failed: they are all it holds when
\* nothing failed on the primary connection.
C2_FailuresAreIsolated ==
    Returned /\ Enumerated =>
        /\ Len(conns) = Len(names)
        /\ \A i \in DOMAIN conns :
              /\ conns[i].db = names[i]
              /\ ~TargetFailed(conns[i]) =>
                    /\ Len(MeasurementsOf(tablesCountDesc, names[i])) = 1
                    /\ Len(MeasurementsOf(bloatTableDesc, names[i]))
                          = conns[i].queries[2].n
        /\ Cardinality({k \in DOMAIN ret.parts : IsTargetFailure(ret.parts[k])})
              = Cardinality({i \in DOMAIN conns : TargetFailed(conns[i])})
        /\ (\A k \in DOMAIN db.queries : db.queries[k].ok /\ db.queries[k].bad = 0)
              => Len(ret.parts) = Cardinality({i \in DOMAIN conns : TargetFailed(conns[i])})

\* the first database cannot be opened, the second one is measured, bloat
\* rows included, and the error holds one failure
C2_Witness ==
    /\ Returned
    /\ Len(conns) = 2
    /\ ~conns[1].opened
    /\ ~TargetFailed(conns[2])
    /\ Len(MeasurementsOf(tablesCountDesc, names[2])) = 1
    /\ Len(MeasurementsOf(bloatTableDesc, names[2])) > 0
    /\ Len(ret.parts) = 1

\* C3: when the deadline expired during the primary stage, Scrape has emitted
\* nothing, has reached no per-database stage and returns an error.
C3_ExpiryEmitsNothing ==
    Returned /\ ctxDone => ch = <<>> /\ conns = <<>> /\ ret # Nil

\* C4: Scrape returns nil only if no open, no query, no scan and no row
\* iteration failed in the cycle.
C4_NilMeansNoFailure ==
    Returned /\ ret = Nil =>
        /\ \A k \in DOMAIN db.queries : db.queries[k].ok /\ db.queries[k].bad = 0
        /\ rows[databaseSizeSql].lasterr = "-"
        /\ \A i \in DOMAIN conns : ~TargetFailed(conns[i])

\* C5: the bloat query is attempted on every connection that opened and
\* executed the object-count query, also when the scan of the count failed.
C5_BloatQueryAfterCount ==
    \A i \in DOMAIN conns :
        StageOver(i) /\ CountExecuted(conns[i]) => BloatAttempted(conns[i])

\* C6: a target has exactly one object-count measurement if its object-count
\* step produced a value, whatever its bloat query did, and none if that
\* step failed.
C6_CountEmittedOncePerValue ==
    Returned /\ Enumerated =>
        \A i \in DOMAIN conns :
            /\ CountProduced(conns[i]) =>
                  Len(MeasurementsOf(tablesCountDesc, conns[i].db)) = 1
            /\ CountFailed(conns[i]) =>
                  Len(MeasurementsOf(tablesCountDesc, conns[i].db)) = 0

\* s contains sub
Contains(sub, s) ==
    \E i \in 1..Len(s) : i + Len(sub) - 1 <= Len(s) /\ SubSeq(s, i, i + Len(sub) - 1) = sub
\* the tier the specification gives a diagnostic message
Tier(bdidiag) ==
    IF bdidiag.null THEN 0
    ELSE IF Contains(Significant, bdidiag.text) THEN 2
    ELSE IF Contains(Moderate, bdidiag.text) THEN 1
    ELSE 0

\* C7: the value of a bloat measurement is 2 when the message of its row
\* contains "significant", else 1 when it contains "moderate", else 0.
C7_TierOfMessage ==
    LET r == rows[bloatTableSql] IN
    pc = "bloatNext" /\ r.cur # <<>> /\ r.cur[1].ok =>
        ch[Len(ch)] = MustNewConstMetric(bloatTableDesc, Tier(r.cur[1].bdidiag),
                                         <<r.cur[1].dbname, r.cur[1].table>>)

\* C8: a cycle that reaches the cluster-aggregate stage attempts both ratio
\* queries; each one that returns a row has its measurement emitted whatever
\* the other did, and each one that fails has its failure in the error.
C8_RatiosAreIndependent ==
    Returned /\ Enumerated =>
        /\ Len(db.queries) = 3
        /\ db.queries[2].sql = hitCacheRateSql
        /\ db.queries[3].sql = txCommitRateSql
        /\ db.queries[2].n = 1 => Len(Measurements(hitCacheRateDesc)) = 1
        /\ db.queries[3].n = 1 => Len(Measurements(txCommitRateDesc)) = 1
        /\ ~db.queries[2].ok => Failure("query", hitCacheRateSql) \in Failures(ret)
        /\ ~db.queries[3].ok => Failure("query", txCommitRateSql) \in Failures(ret)

\* the cache-hit query failed and the commit ratio was emitted
C8_Witness ==
    /\ Returned /\ Enumerated
    /\ ~db.queries[2].ok
    /\ db.queries[3].ok
    /\ Len(Measurements(txCommitRateDesc)) = 1
    /\ Failure("query", hitCacheRateSql) \in Failures(ret)

\* C9: when the primary query fails, Scrape returns that one error, has
\* emitted nothing, opened no connection and issued no other query.
C9_PrimaryFailureAborts ==
    Returned /\ ~Enumerated =>
        /\ ret \in {Failure("query", databaseSizeSql),
                    Failure("deadline", databaseSizeSql)}
        /\ ch = <<>>
        /\ conns = <<>>
        /\ Len(db.queries) = 1

\* Scrape returned after its primary query failed
C9_Witness == Returned /\ ~Enumerated /\ ret = Failure("query", databaseSizeSql)

\* C10: when the N rows of the primary result are all scanned, the size
\* measurements are exactly those rows, in order, each with the name and
\* the size of its row, whatever the later stages did.
C10_OneSizePerRow ==
    LET r == rows[databaseSizeSql] IN
    Returned /\ Enumerated /\ r.n = r.total /\ db.queries[1].bad = 0 =>
        /\ Len(Measurements(databaseSizeDesc)) = r.total
        /\ \A i \in 1..r.total :
              Measurements(databaseSizeDesc)[i]
                 = MustNewConstMetric(databaseSizeDesc, AllSizes[i], <<AllNames[i]>>)

\* two rows scanned, two sizes emitted, and failures in the later stages
C10_Witness ==
    /\ Returned /\ Enumerated
    /\ rows[databaseSizeSql].total = 2
    /\ rows[databaseSizeSql].n = 2
    /\ db.queries[1].bad = 0
    /\ Len(Measurements(databaseSizeDesc)) = 2
    /\ \E i \in DOMAIN conns : TargetFailed(conns[i])
    /\ ~db.queries[3].ok

\* the stage a measurement belongs to: sizes, per-database, cache hit, commit
StageOf(m) ==
    CASE m.desc = databaseSizeDesc -> 1
      [] m.desc \in {tablesCountDesc, bloatTableDesc} -> 2
      [] m.desc = hitCacheRateDesc -> 3
      [] m.desc = txCommitRateDesc -> 4
\* d comes before e in the sequence s, or is e when same is allowed
Precedes(s, d, e, same) ==
    \E p, q \in DOMAIN s : s[p] = d /\ s[q] = e /\ (p < q \/ (same /\ p = q))
\* the members of the sequence s
Range(s) == {s[k] : k \in DOMAIN s}
\* the place of a database in the primary result, of a table in a bloat result
NameIndex == [d \in Range(AllNames) |-> CHOOSE i \in DOMAIN AllNames : AllNames[i] = d]
TableIndex == [t \in Range(TableNames) |-> CHOOSE i \in DOMAIN TableNames : TableNames[i] = t]

\* the measurement m is in its place when written after the measurements
\* before: not of an earlier stage than the last one; after a size, a size
\* of a later row; after a per-database measurement, one of the same
\* database or of one discovered later; and a bloat row after every bloat
\* row of its database that precedes it in the bloat result
InPlace(before, m) ==
    /\ before # <<>> =>
          LET a == before[Len(before)] IN
          /\ StageOf(a) <= StageOf(m)
          /\ StageOf(a) = 1 /\ StageOf(m) = 1 =>
                NameIndex[a.labels[1]] < NameIndex[m.labels[1]]
          /\ StageOf(a) = 2 /\ StageOf(m) = 2 =>
                Precedes(names, a.labels[1], m.labels[1], TRUE)
    /\ m.desc = bloatTableDesc =>
          \A j \in DOMAIN before :
              before[j].desc = bloatTableDesc /\ before[j].labels[1] = m.labels[1] =>
                  TableIndex[before[j].labels[2]] < TableIndex[m.labels[2]]

\* C11: the measurements are written in discovery order: the sizes first, in
\* the order of the primary result; then the per-database measurements, those
\* of a database discovered earlier before those of one discovered later,
\* the bloat rows of one database in the order of its bloat result; then
\* the cache-hit measurement, then the commit-ratio measurement. Every step
\* that writes appends one measurement, in its place.
C11_DiscoveryOrder ==
    [][ch' # ch =>
          /\ Len(ch') = Len(ch) + 1
          /\ SubSeq(ch', 1, Len(ch)) = ch
          /\ InPlace(ch, ch'[Len(ch')])]_vars

\* two databases, two bloat rows of the first one, an object count of the
\* second one, and both ratios
C11_Witness ==
    /\ Returned
    /\ Len(names) = 2
    /\ Len(Measurements(databaseSizeDesc)) = 2
    /\ Len(MeasurementsOf(bloatTableDesc, names[1])) = 2
    /\ Len(MeasurementsOf(tablesCountDesc, names[1])) = 1
    /\ Len(MeasurementsOf(tablesCountDesc, names[2])) = 1
    /\ Len(Measurements(hitCacheRateDesc)) = 1
    /\ Len(Measurements(txCommitRateDesc)) = 1

\* the metric the rows of a query on the primary connection are written as
DescOf(q) ==
    CASE q = databaseSizeSql -> databaseSizeDesc
      [] q = hitCacheRateSql -> hitCacheRateDesc
      [] q = txCommitRateSql -> txCommitRateDesc
\* the rows of the log entry e that were read and scanned successfully
ScannedRows(e) == e.n - e.bad

\* C12: a measurement is written only for a row that was scanned
\* successfully: in the size, bloat, cache-hit and commit-ratio stages there
\* are never more measurements than successfully scanned rows.
C12_OnlyScannedRows ==
    /\ \A k \in DOMAIN db.queries :
          Len(Measurements(DescOf(db.queries[k].sql))) <= ScannedRows(db.queries[k])
    /\ \A i \in DOMAIN conns :
          \A k \in DOMAIN conns[i].queries :
              conns[i].queries[k].sql = bloatTableSql =>
                  Len(MeasurementsOf(bloatTableDesc, conns[i].db))
                      <= ScannedRows(conns[i].queries[k])

\* C13: Scrape never closes the primary connection: in every state, and so on
\* every return path, it is open as it was when Scrape was called.
C13_PrimaryStaysOpen ==
    /\ db.dsn = dataSourceName
    /\ db.opened /\ db.open /\ db.closes = 0

\* Scrape returned after the deadline expired, a target failed and the
\* ratio queries were issued on the primary connection, which is open
C13_Witness ==
    /\ Returned /\ Enumerated /\ ctxDone
    /\ \E i \in DOMAIN conns : TargetFailed(conns[i])
    /\ Len(db.queries) = 3
    /\ db.open

\* no open, no query and no scan failed in the cycle
NothingFailed ==
    /\ \A k \in DOMAIN db.queries : db.queries[k].ok /\ db.queries[k].bad = 0
    /\ \A i \in DOMAIN conns : ~TargetFailed(conns[i])
\* the measurements of a cycle in which nothing failed, but for the ratios:
\* a size and an object count per discovered database, a bloat measurement
\* per row of each bloat result
PerDatabaseExactly ==
    /\ Len(Measurements(databaseSizeDesc)) = Len(names)
    /\ Len(Measurements(tablesCountDesc)) = Len(names)
    /\ Len(Measurements(bloatTableDesc)) = BloatRowsServed(conns)
    /\ Len(conns) = Len(names)
    /\ \A i \in DOMAIN names :
          /\ Len(MeasurementsOf(databaseSizeDesc, names[i])) = 1
          /\ Len(MeasurementsOf(tablesCountDesc, names[i])) = 1
          /\ Len(MeasurementsOf(bloatTableDesc, names[i])) = conns[i].queries[2].n

\* C14 as stated: when no open, no query and no scan failed, Scrape returns
\* nil and has emitted one size and one object count per discovered
\* database, one bloat measurement per bloat row, one cache-hit measurement
\* and one commit-ratio measurement, and nothing else.
C14_AsStated ==
    Returned /\ NothingFailed =>
        /\ ret = Nil
        /\ PerDatabaseExactly
        /\ Len(Measurements(hitCacheRateDesc)) = 1
        /\ Len(Measurements(txCommitRateDesc)) = 1
        /\ Len(ch) = 2 * Len(names) + BloatRowsServed(conns) + 2

\* C14, amended: when no open, no query and no scan failed, Scrape returns
\* nil and has emitted one size and one object count per discovered
\* database, one bloat measurement per bloat row, and one measurement for
\* each ratio query whose result had a row, none for one whose result was
\* empty, and nothing else.
C14_CleanCycle ==
    Returned /\ NothingFailed =>
        /\ ret = Nil
        /\ PerDatabaseExactly
        /\ Len(Measurements(hitCacheRateDesc)) = (IF db.queries[2].n > 0 THEN 1 ELSE 0)
        /\ Len(Measurements(txCommitRateDesc)) = (IF db.queries[3].n > 0 THEN 1 ELSE 0)
        /\ Len(ch) = 2 * Len(names) + BloatRowsServed(conns)
                        + Len(Measurements(hitCacheRateDesc))
                        + Len(Measurements(txCommitRateDesc))

\* a clean cycle over two databases with bloat rows, one of them not
\* bloated, whose cache-hit result had a row and whose commit-ratio result
\* had none
C14_Witness ==
    /\ Returned /\ NothingFailed
    /\ Len(names) = 2
    /\ BloatRowsServed(conns) = 2
    /\ \E k \in DOMAIN ch : ch[k].desc = bloatTableDesc /\ ch[k].value = 0
    /\ db.queries[2].n = 1
    /\ db.queries[3].n = 0
    /\ Len(Measurements(txCommitRateDesc)) = 0

\* C15: a row of the primary result that fails to scan has no size
\* measurement and no per-database stage and adds one failure to the
\* returned error, and the rows after it are still read: but for the
\* deadline, every row of the result is read, and every row that scanned
\* is emitted and has its per-database stage.
C15_FailedRowIsSkipped ==
    LET r == rows[databaseSizeSql] IN
    /\ pc = "sizeNext" /\ r.cur # <<>> /\ ~r.cur[1].ok =>
          /\ MeasurementsOf(databaseSizeDesc, r.cur[1].dbname) = <<>>
          /\ r.cur[1].dbname \notin Range(names)
          /\ errs # <<>> /\ errs[Len(errs)] = Failure("scan", databaseSizeSql)
    /\ Returned /\ Enumerated =>
          /\ Cardinality({k \in DOMAIN ret.parts :
                             ret.parts[k] = Failure("scan", databaseSizeSql)})
                = db.queries[1].bad
          /\ Len(names) = ScannedRows(db.queries[1])
          /\ Len(Measurements(databaseSizeDesc)) = Len(names)
          /\ Len(conns) = Len(names)
          /\ \A i \in DOMAIN conns :
                conns[i].db = names[i]
                /\ Len(MeasurementsOf(databaseSizeDesc, names[i])) = 1
          /\ ~ctxDone => r.n = r.total

\* the first of two rows failed to scan: the second one was read, emitted
\* and had its per-database stage, and the error holds the one failure
C15_Witness ==
    /\ Returned /\ Enumerated /\ ~ctxDone
    /\ rows[databaseSizeSql].total = 2
    /\ db.queries[1].bad = 1
    /\ names = <<AllNames[2]>>
    /\ Len(conns) = 1 /\ conns[1].db = AllNames[2]
    /\ MeasurementsOf(databaseSizeDesc, AllNames[1]) = <<>>
    /\ Len(MeasurementsOf(databaseSizeDesc, AllNames[2])) = 1
    /\ Failure("scan", databaseSizeSql) \in Failures(ret)

\* the failures recorded for the query q
FailuresAt(es, q) == {k \in DOMAIN es : es[k].at = q}

\* C16: a ratio query has only the first row of its result read: there is
\* at most one cache-hit and at most one commit-ratio measurement however
\* many rows the result has, and a result without rows gives no measurement
\* and no failure.
C16_FirstRowOnly ==
    /\ Len(Measurements(hitCacheRateDesc)) <= 1
    /\ Len(Measurements(txCommitRateDesc)) <= 1
    /\ \A k \in DOMAIN db.queries :
          LET e == db.queries[k] IN
          e.sql \in {hitCacheRateSql, txCommitRateSql} =>
              /\ e.n <= 1
              /\ rows[e.sql].n <= 1
              /\ pc = e.sql \o "Return" /\ rows[e.sql].total > 0 =>
                    e.n = 1 /\ Len(Measurements(DescOf(e.sql))) = 1
              /\ e.ok /\ e.n = 0 /\ pc # e.sql =>
                    /\ Measurements(DescOf(e.sql)) = <<>>
                    /\ FailuresAt(errs, e.sql) = {}
                    /\ Returned => FailuresAt(ret.parts, e.sql) = {}

\* the cache-hit result had no row, and nothing was written or recorded for
\* it; the commit-ratio result has two rows, one was read and written
C16_Witness ==
    /\ pc = txCommitRateSql \o "Return"
    /\ db.queries[2].ok /\ db.queries[2].n = 0
    /\ Measurements(hitCacheRateDesc) = <<>>
    /\ errs = <<>>
    /\ rows[txCommitRateSql].total = 2
    /\ rows[txCommitRateSql].n = 1
    /\ Len(Measurements(txCommitRateDesc)) = 1

\* the per-database connections that are open
OpenConns == {i \in DOMAIN conns : conns[i].open}

\* C17: at most one per-database connection is open at any time: the
\* connection of a target is closed before that of the next target is
\* opened, and none is open while the ratio queries run or when Scrape
\* returns.
C17_OneConnectionAtATime ==
    /\ Cardinality(OpenConns) <= 1
    /\ \A i \in DOMAIN conns : i < Len(conns) => ~conns[i].open
    /\ pc \notin InStage => OpenConns = {}

\* the connection of the first target was opened and is closed, that of the
\* second target is open and its bloat query is running
C17_Witness ==
    /\ Len(conns) = 2
    /\ conns[1].opened /\ conns[1].closes = 1 /\ ~conns[1].open
    /\ conns[2].open
    /\ pc = "bloatScan"

\* C18: the result sets of the object-count and bloat queries are closed
\* before their connection is closed, on every way out of the per-database
\* stage, and the result sets of the size, cache-hit and commit-ratio
\* queries are closed once Scrape has returned.
C18_RowsClosedFirst ==
    /\ \A q \in {tableCountSql, bloatTableSql} :
          rows[q].st = "open" => conns # <<>> /\ conn.open /\ pc \in InStage
    /\ Returned => \A q \in RowSets : rows[q].st # "open"

\* the scan of the object count failed with its result set open; the
\* result set is closed and so is the connection, once
C18_Witness ==
    /\ pc = "tcReturn"
    /\ conn.opened /\ conn.closes = 1
    /\ conn.queries[1].bad = 1
    /\ rows[tableCountSql].n = 1
    /\ rows[tableCountSql].st = "closed"

\* Scrape has returned from line 134 with every stage attempted: a
\* per-database stage for each discovered database, both ratio queries,
\* and every per-database connection closed
RanToCompletion ==
    /\ Returned
    /\ Len(conns) = Len(names)
    /\ \A i \in DOMAIN conns : conns[i].db = names[i]
    /\ \E j, k \in DOMAIN db.queries :
          db.queries[j].sql = hitCacheRateSql /\ db.queries[k].sql = txCommitRateSql
    /\ OpenConns = {}

\* C19: once the primary query has returned its result, and as long as
\* every query is answered and every write is taken, Scrape eventually
\* returns, having run the stage of every discovered database and both
\* ratio queries and closed every per-database connection.
C19_RunsToCompletion == Enumerated ~> RanToCompletion

\* Scrape ran to completion after its deadline had expired: the database
\* discovered before the expiry had its connection opened and closed, and
\* both ratio queries were issued
C19_Witness ==
    /\ RanToCompletion /\ Enumerated /\ ctxDone
    /\ Len(conns) = 1
    /\ conns[1].closes = 1
    /\ Len(db.queries) = 3

\* the components of a URL descriptor other than its database
Scheme(dsn) == Upto(dsn, "://")
Authority(dsn) == Upto(Past(dsn, "://"), "/")
Options(dsn) == Past(dsn, "?")

\* C20: the descriptor a target is opened with is the base descriptor with
\* its database replaced by the name of the target and its scheme, user,
\* host and options unchanged, whatever the base descriptor, so that two
\* distinct names are opened on two distinct databases.
C20_DescriptorOfTarget ==
    /\ \A i \in DOMAIN conns :
          /\ Database(conns[i].dsn) = names[i]
          /\ Scheme(conns[i].dsn) = Scheme(dataSourceName)
          /\ Authority(conns[i].dsn) = Authority(dataSourceName)
          /\ Options(conns[i].dsn) = Options(dataSourceName)
    /\ \A i, j \in DOMAIN conns :
          names[i] # names[j] => Database(conns[i].dsn) # Database(conns[j].dsn)
=============================================================================
